---- MODULE Spec2Model ----
(***************************************************************************)
(* Account ledger and batch driver of the transaction processor.           *)
(*                                                                         *)
(* Amounts are u64 in the source.  The model keeps the width but scales    *)
(* it down: an amount is a number in 0..U64Max and every += / -= of the    *)
(* source is done in that width.  What an overflowing += or -= does        *)
(* depends on the build: with overflow checks (the dev profile) the        *)
(* process panics, without them (the release profile) the value wraps.     *)
(* Both builds are modelled: the first overflow of a run shows which.      *)
(***************************************************************************)
EXTENDS Integers, Sequences, FiniteSets, TLC

\* ---------------------------------------------------------------- bounds
\* The largest value of the amount type (u64::MAX, scaled down).
U64Max == 3
\* The largest number of rows the driver folds in one run.
MaxRows == 5
\* The largest number of rows of a recorded input (SpecHist).
MaxInput == 4
\* The largest number of records of an input file (SpecCsv).
MaxFile == 3
\* The largest number of rows of a run whose history is kept (SpecFunds).
MaxFundRows == 6
\* The largest client id (u16::MAX).
U16Max == 65535
\* The largest tx id (u32::MAX, scaled down).
U32Max == 100000

Modulus == U64Max + 1
Clients == {1, 2}
Txs == {1, 2}
\* The amounts of the rows: the small values and the largest one.
Amounts == {0, 1, 2, U64Max}
\* A dispute, resolve or chargeback row carries an amount the ledger ignores.
IgnoredAmounts == {0, 1}

\* ------------------------------------------------------------ data model
TransactionType == {"deposit", "withdrawal", "dispute", "resolve", "chargeback"}

TransactionRow ==
    [type : {"deposit", "withdrawal"}, client : Clients, tx : Txs, amount : Amounts]
    \cup [type : {"dispute", "resolve", "chargeback"}, client : Clients, tx : Txs,
          amount : IgnoredAmounts]

Resolution == {"Resolve", "Chargeback"}

Done(resolution) == <<"Done", resolution>>

Dispute == {<<"None">>, <<"Ongoing">>} \cup {Done(r) : r \in Resolution}

Transaction(amount, dispute) == [amount |-> amount, dispute |-> dispute]

\* Account::new
Account_new(client) ==
    [client |-> client, available |-> 0, held |-> 0, locked |-> FALSE,
     transactions |-> << >>]

\* HashMap::insert: the entry of key k is replaced, every other entry kept.
Insert(m, k, v) == [x \in (DOMAIN m) \cup {k} |-> IF x = k THEN v ELSE m[x]]

\* --------------------------------------------------------- u64 arithmetic
AddOverflows(a, b) == a + b > U64Max
SubOverflows(a, b) == b > a
WrappingAdd(a, b) == (a + b) % Modulus
WrappingSub(a, b) == (a - b + Modulus) % Modulus

\* The outcome of a handler: the account as the wrapping arithmetic leaves
\* it, and whether one of its += / -= overflowed.
Outcome(account, overflow) == [account |-> account, overflow |-> overflow]

\* ------------------------------------------------------- account ledger
\* Mutant: a deposit records its tx id like a withdrawal does.
process_deposit_RecordsTx(self, transaction) ==
    Outcome([self EXCEPT
               !.available = WrappingAdd(self.available, transaction.amount),
               !.transactions = Insert(self.transactions, transaction.tx,
                                       Transaction(transaction.amount, <<"None">>))],
            AddOverflows(self.available, transaction.amount))

process_deposit(self, transaction) ==
    Outcome([self EXCEPT !.available = WrappingAdd(self.available, transaction.amount)],
            AddOverflows(self.available, transaction.amount))

\* Mutant: the boundary moved, a withdrawal of the whole balance is accepted.
WithdrawalAccepted_OrEqual(available, amount) == available >= amount

WithdrawalAccepted(available, amount) == available > amount

\* Mutant: a withdrawal whose tx id is recorded keeps the recorded entry.
process_withdrawal_KeepsEntry(self, transaction) ==
    IF WithdrawalAccepted(self.available, transaction.amount)
    THEN Outcome([self EXCEPT
                    !.available = WrappingSub(self.available, transaction.amount),
                    !.transactions =
                        IF transaction.tx \in DOMAIN self.transactions
                        THEN self.transactions
                        ELSE Insert(self.transactions, transaction.tx,
                                    Transaction(transaction.amount, <<"None">>))],
                 FALSE)
    ELSE Outcome(self, FALSE)

process_withdrawal(self, transaction) ==
    IF WithdrawalAccepted(self.available, transaction.amount)
    THEN Outcome([self EXCEPT
                    !.available = WrappingSub(self.available, transaction.amount),
                    !.transactions = Insert(self.transactions, transaction.tx,
                                            Transaction(transaction.amount, <<"None">>))],
                 FALSE)
    ELSE Outcome(self, FALSE)

\* Mutant: a dispute reopens the entry whatever its state.
process_dispute_AlwaysOngoing(self, transaction) ==
    IF transaction.tx \in DOMAIN self.transactions
    THEN LET e == self.transactions[transaction.tx]
         IN Outcome([self EXCEPT
                       !.transactions[transaction.tx].dispute = <<"Ongoing">>,
                       !.held = WrappingAdd(self.held, e.amount)],
                    AddOverflows(self.held, e.amount))
    ELSE Outcome(self, FALSE)

\* Mutant: a dispute holds the amount of the row, not the recorded one.
process_dispute_RowAmount(self, transaction) ==
    IF transaction.tx \in DOMAIN self.transactions
    THEN LET e == self.transactions[transaction.tx]
             d == IF e.dispute = <<"None">> THEN <<"Ongoing">> ELSE e.dispute
         IN Outcome([self EXCEPT
                       !.transactions[transaction.tx].dispute = d,
                       !.held = WrappingAdd(self.held, transaction.amount)],
                    AddOverflows(self.held, transaction.amount))
    ELSE Outcome(self, FALSE)

process_dispute(self, transaction) ==
    IF transaction.tx \in DOMAIN self.transactions
    THEN LET e == self.transactions[transaction.tx]
             d == IF e.dispute = <<"None">> THEN <<"Ongoing">> ELSE e.dispute
         IN Outcome([self EXCEPT
                       !.transactions[transaction.tx].dispute = d,
                       !.held = WrappingAdd(self.held, e.amount)],
                    AddOverflows(self.held, e.amount))
    ELSE Outcome(self, FALSE)

\* Mutant: a resolve returns the amount to available and keeps it held.
process_resolve_KeepsHeld(self, transaction) ==
    IF /\ transaction.tx \in DOMAIN self.transactions
       /\ self.transactions[transaction.tx].dispute = <<"Ongoing">>
    THEN LET e == self.transactions[transaction.tx]
         IN Outcome([self EXCEPT
                       !.transactions[transaction.tx].dispute = Done("Resolve"),
                       !.available = WrappingAdd(self.available, e.amount)],
                    AddOverflows(self.available, e.amount))
    ELSE Outcome(self, FALSE)

\* Mutant: a resolve that takes effect drops the entry from the mapping.
process_resolve_RemovesEntry(self, transaction) ==
    IF /\ transaction.tx \in DOMAIN self.transactions
       /\ self.transactions[transaction.tx].dispute = <<"Ongoing">>
    THEN LET e == self.transactions[transaction.tx]
             rest == [x \in (DOMAIN self.transactions) \ {transaction.tx} |->
                         self.transactions[x]]
         IN Outcome([self EXCEPT
                       !.transactions = rest,
                       !.held = WrappingSub(self.held, e.amount),
                       !.available = WrappingAdd(self.available, e.amount)],
                    SubOverflows(self.held, e.amount)
                      \/ AddOverflows(self.available, e.amount))
    ELSE Outcome(self, FALSE)

process_resolve(self, transaction) ==
    IF /\ transaction.tx \in DOMAIN self.transactions
       /\ self.transactions[transaction.tx].dispute = <<"Ongoing">>
    THEN LET e == self.transactions[transaction.tx]
         IN Outcome([self EXCEPT
                       !.transactions[transaction.tx].dispute = Done("Resolve"),
                       !.held = WrappingSub(self.held, e.amount),
                       !.available = WrappingAdd(self.available, e.amount)],
                    SubOverflows(self.held, e.amount)
                      \/ AddOverflows(self.available, e.amount))
    ELSE Outcome(self, FALSE)

\* Mutant: the account is locked whether or not the tx id is a disputed entry.
process_chargeback_LocksAnyway(self, transaction) ==
    IF /\ transaction.tx \in DOMAIN self.transactions
       /\ self.transactions[transaction.tx].dispute = <<"Ongoing">>
    THEN LET e == self.transactions[transaction.tx]
         IN Outcome([self EXCEPT
                       !.transactions[transaction.tx].dispute = Done("Chargeback"),
                       !.held = WrappingSub(self.held, e.amount),
                       !.locked = TRUE],
                    SubOverflows(self.held, e.amount))
    ELSE Outcome([self EXCEPT !.locked = TRUE], FALSE)

\* Mutant: a chargeback that takes effect does not lock the account.
process_chargeback_NoLock(self, transaction) ==
    IF /\ transaction.tx \in DOMAIN self.transactions
       /\ self.transactions[transaction.tx].dispute = <<"Ongoing">>
    THEN LET e == self.transactions[transaction.tx]
         IN Outcome([self EXCEPT
                       !.transactions[transaction.tx].dispute = Done("Chargeback"),
                       !.held = WrappingSub(self.held, e.amount)],
                    SubOverflows(self.held, e.amount))
    ELSE Outcome(self, FALSE)

process_chargeback(self, transaction) ==
    IF /\ transaction.tx \in DOMAIN self.transactions
       /\ self.transactions[transaction.tx].dispute = <<"Ongoing">>
    THEN LET e == self.transactions[transaction.tx]
         IN Outcome([self EXCEPT
                       !.transactions[transaction.tx].dispute = Done("Chargeback"),
                       !.held = WrappingSub(self.held, e.amount),
                       !.locked = TRUE],
                    SubOverflows(self.held, e.amount))
    ELSE Outcome(self, FALSE)

\* Mutant: the lock is not looked at.
process_transaction_NoLockCheck(self, transaction) ==
    CASE transaction.type = "deposit" -> process_deposit(self, transaction)
      [] transaction.type = "withdrawal" -> process_withdrawal(self, transaction)
      [] transaction.type = "dispute" -> process_dispute(self, transaction)
      [] transaction.type = "resolve" -> process_resolve(self, transaction)
      [] transaction.type = "chargeback" -> process_chargeback(self, transaction)

\* Mutant: a resolve row lifts the lock of a locked account.
process_transaction_ResolveUnlocks(self, transaction) ==
    IF ~self.locked
    THEN process_transaction_NoLockCheck(self, transaction)
    ELSE IF transaction.type = "resolve"
         THEN Outcome([self EXCEPT !.locked = FALSE], FALSE)
         ELSE Outcome(self, FALSE)

process_transaction(self, transaction) ==
    IF ~self.locked
    THEN CASE transaction.type = "deposit" -> process_deposit(self, transaction)
           [] transaction.type = "withdrawal" -> process_withdrawal(self, transaction)
           [] transaction.type = "dispute" -> process_dispute(self, transaction)
           [] transaction.type = "resolve" -> process_resolve(self, transaction)
           [] transaction.type = "chargeback" -> process_chargeback(self, transaction)
    ELSE Outcome(self, FALSE)

\* impl From<&Account> for OutputAccount
OutputAccount(account) ==
    [client |-> account.client, available |-> account.available,
     held |-> account.held,
     total |-> WrappingAdd(account.available, account.held),
     locked |-> account.locked]

\* ------------------------------------------------------------ amount codec
\* An amount text is a sequence of characters.  The codec is checked at a
\* width of its own: splitting off the four fraction digits needs values of
\* five digits, so u64::MAX is scaled down to CodecU64Max here.
CodecU64Max == 20000
\* The number of digits the integer part of a generated amount text may have.
MaxIntDigits == 2
\* The fraction digits of the fixed-point amount ("{:0<4}", len - 4).
FracDigits == 4

DigitChars == <<"0", "1", "2", "3", "4", "5", "6", "7", "8", "9">>

IsDigit(ch) == \E i \in 1..10 : DigitChars[i] = ch

DigitValue(ch) == (CHOOSE i \in 1..10 : DigitChars[i] = ch) - 1

Ok(value) == [ok |-> TRUE, value |-> value]

Err == [ok |-> FALSE, value |-> 0]

\* u64::to_string
RECURSIVE to_string(_)
to_string(x) ==
    IF x < 10 THEN <<DigitChars[x + 1]>>
    ELSE Append(to_string(x \div 10), DigitChars[(x % 10) + 1])

\* str::parse::<u64> of a string of digits, read left to right; an error
\* when a character is no digit or the value leaves the width.
RECURSIVE parse_digits(_, _)
parse_digits(str, acc) ==
    IF str = << >> THEN Ok(acc)
    ELSE IF ~IsDigit(Head(str)) THEN Err
    ELSE LET v == acc * 10 + DigitValue(Head(str))
         IN IF v > CodecU64Max THEN Err ELSE parse_digits(Tail(str), v)

\* str::parse::<u64>: an optional "+", then at least one digit.
parse_u64(str) ==
    LET digits == IF str # << >> /\ Head(str) = "+" THEN Tail(str) ELSE str
    IN IF digits = << >> THEN Err ELSE parse_digits(digits, 0)

\* str::split('.'): the places of the points, the piece before the first
\* point (split_amount.first()) and the piece after the last one
\* (split_amount.last()); both are the whole text when it has no point.
Points(str) == {i \in 1..Len(str) : str[i] = "."}

Min(S) == CHOOSE x \in S : \A y \in S : x <= y

Max(S) == CHOOSE x \in S : \A y \in S : x >= y

FirstPiece(str) ==
    IF Points(str) = {} THEN str ELSE SubSeq(str, 1, Min(Points(str)) - 1)

LastPiece(str) ==
    IF Points(str) = {} THEN str ELSE SubSeq(str, Max(Points(str)) + 1, Len(str))

\* Mutant: the zeros are put in front of the fraction ("{:0>4}").
PadZeros_Left(str) ==
    IF Len(str) >= FracDigits THEN str
    ELSE [i \in 1..FracDigits |->
            IF i <= FracDigits - Len(str) THEN "0" ELSE str[i - (FracDigits - Len(str))]]

\* format!("{:0<4}", right): zeros are added on the right up to four
\* characters; a longer string is kept as it is.
PadZeros(str) ==
    IF Len(str) >= FracDigits THEN str
    ELSE [i \in 1..FracDigits |-> IF i <= Len(str) THEN str[i] ELSE "0"]

deserialize_amount(deserialized) ==
    LET left == FirstPiece(deserialized)
        right == LastPiece(deserialized)
        output_string == left \o PadZeros(right)
    IN parse_u64(output_string)

\* serialize_amount: the text, or a panic.  amount_string.len() - 4 is a
\* usize subtraction: below four digits it panics when overflow is checked,
\* and when it is not it wraps to a length the slice [..len] panics on.
serialize_amount(x) ==
    IF x = 0 THEN [panicked |-> FALSE, text |-> <<"0", ".", "0">>]
    ELSE LET amount_string == to_string(x)
         IN IF Len(amount_string) < FracDigits
            THEN [panicked |-> TRUE, text |-> << >>]
            ELSE LET len == Len(amount_string) - FracDigits
                     first_digits == SubSeq(amount_string, 1, len)
                     last_digits == SubSeq(amount_string, len + 1, Len(amount_string))
                 IN [panicked |-> FALSE, text |-> first_digits \o <<".">> \o last_digits]

\* ----------------------------------------------------------------- state
VARIABLES
    accounts,   \* HashMap<u16, Account> of the fold
    t,          \* the row the fold is at (NoRow outside the fold)
    n,          \* the number of rows taken
    pc,         \* "processing" (in the fold) or "done" (the fold is over)
    output,     \* the OutputAccounts handed to write_csv
    panicked,   \* an arithmetic overflow aborted the process (checked build)
    wrapped,    \* an arithmetic overflow wrapped (unchecked build)
    input,      \* the rows taken so far, recorded under SpecHist
    codec,      \* the last call of the amount codec (SpecCodec)
    file_content, \* the records of the input file, once read (SpecCsv)
    history     \* what the rows taken so far add up to (SpecFunds)

vars == <<accounts, t, n, pc, output, panicked, wrapped, input, codec, file_content,
         history>>

NoRow == [type |-> "none", client |-> 0, tx |-> 0, amount |-> 0]

\* A call of the codec: what was called, the amount and the text involved,
\* and the result (ok is FALSE for an Err and for a panic).
Call(op, x, text, ok, value) ==
    [op |-> op, x |-> x, text |-> text, ok |-> ok, value |-> value]

NoCall == Call("none", 0, << >>, TRUE, 0)

\* The history of a run: the sum of the deposits each account accepted, the
\* tx ids that came with a withdrawal row, the entries a dispute took effect
\* on, and whether no tx id came with a second withdrawal row and no entry
\* got a second effective dispute so far.
NoHistory ==
    [deposited |-> [c \in Clients |-> 0], withdrawn |-> {}, disputed |-> {},
     single |-> TRUE]

\* The input file: whether it was read, and its records below the header.
NoFile == [read |-> FALSE, records |-> << >>]

Init ==
    /\ accounts = << >>
    /\ t = NoRow
    /\ n = 0
    /\ pc = "processing"
    /\ output = {}
    /\ panicked = FALSE
    /\ wrapped = FALSE
    /\ input = << >>
    /\ codec = NoCall
    /\ file_content = NoFile
    /\ history = NoHistory

\* Mutant: one account is shared by all clients.
Entry_Shared(acc, client) ==
    IF acc = << >> THEN Account_new(client) ELSE acc[CHOOSE k \in DOMAIN acc : TRUE]

\* acc.entry(client).or_insert_with(|| Account::new(client))
Entry(acc, client) == IF client \in DOMAIN acc THEN acc[client] ELSE Account_new(client)

\* An overflowing += or -= panics when the build checks overflow and wraps
\* when it does not.  Which build runs shows at the first overflow: once a
\* value has wrapped the build is known to be unchecked.
Panics(overflow) == overflow /\ ~wrapped

Wraps(overflow) == overflow

\* Mutant: an account is created only for a row that changes it.
Fold_SkipNoOp(acc, row) ==
    LET r == process_transaction(Entry(acc, row.client), row)
    IN [accounts |-> IF row.client \notin DOMAIN acc /\ r.account = Account_new(row.client)
                     THEN acc
                     ELSE Insert(acc, row.client, r.account),
        overflow |-> r.overflow]

\* The body of the fold's closure: the account of the row's client is looked
\* up or created, the row is applied to it, and the map is handed on.
Fold(acc, row) ==
    LET r == process_transaction(Entry(acc, row.client), row)
    IN [accounts |-> Insert(acc, row.client, r.account), overflow |-> r.overflow]

\* One step of the fold of process_transactions.
ProcessRowWithin(row, rows) ==
    /\ pc = "processing"
    /\ ~panicked
    /\ n < rows
    /\ LET r == Fold(accounts, row)
       IN \/ /\ Panics(r.overflow)
             /\ panicked' = TRUE
             /\ UNCHANGED <<accounts, wrapped>>
          \/ /\ accounts' = r.accounts
             /\ wrapped' = (wrapped \/ Wraps(r.overflow))
             /\ UNCHANGED panicked
    /\ t' = row
    /\ n' = n + 1
    /\ UNCHANGED <<pc, output, codec, file_content>>

ProcessRow(row) == ProcessRowWithin(row, MaxRows)

\* main: the fold is over, the accounts are projected to OutputAccounts
\* (total = available + held) and handed to write_csv.
WriteOutput ==
    /\ pc = "processing"
    /\ ~panicked
    /\ LET overflow == \E c \in DOMAIN accounts :
                           AddOverflows(accounts[c].available, accounts[c].held)
       IN \/ /\ Panics(overflow)
             /\ panicked' = TRUE
             /\ UNCHANGED <<output, wrapped>>
          \/ /\ output' = {OutputAccount(accounts[c]) : c \in DOMAIN accounts}
             /\ wrapped' = (wrapped \/ Wraps(overflow))
             /\ UNCHANGED panicked
    /\ pc' = "done"
    /\ t' = NoRow
    /\ UNCHANGED <<accounts, n, input, codec, file_content, history>>

Step == \E row \in TransactionRow : ProcessRow(row) /\ UNCHANGED <<input, history>>

Next == Step \/ WriteOutput

Spec == Init /\ [][Next]_vars

\* ------------------------------------------------- the recorded input
\* The rows of a recorded input: deposits of 2, withdrawals of 1 and the
\* three dispute kinds, on one tx id, for either client.
InputRows ==
    {row \in TransactionRow :
        /\ row.tx = 1
        /\ row.amount = (CASE row.type = "deposit" -> 2
                           [] row.type = "withdrawal" -> 1
                           [] OTHER -> 0)}

StepHist ==
    \E row \in InputRows :
        /\ Len(input) < MaxInput
        /\ ProcessRow(row)
        /\ input' = Append(input, row)
        /\ UNCHANGED history

NextHist == StepHist \/ WriteOutput

SpecHist == Init /\ [][NextHist]_vars

\* process_transactions as a function of its argument, for a build that
\* checks overflow (checks = TRUE: the fold stops at the first overflow) or
\* does not (the values wrap).
RECURSIVE process_transactions(_, _)
process_transactions(transactions, checks) ==
    IF transactions = << >>
    THEN [accounts |-> << >>, panicked |-> FALSE]
    ELSE LET k == Len(transactions)
             before == process_transactions(SubSeq(transactions, 1, k - 1), checks)
             r == Fold(before.accounts, transactions[k])
         IN IF before.panicked THEN before
            ELSE IF r.overflow /\ checks
                 THEN [accounts |-> before.accounts, panicked |-> TRUE]
                 ELSE [accounts |-> r.accounts, panicked |-> FALSE]

\* ------------------------------------------------------ the codec alone
\* Strings of at most len characters of the set chars.
RECURSIVE Strings(_, _)
Strings(chars, len) ==
    IF len = 0 THEN {<< >>}
    ELSE LET shorter == Strings(chars, len - 1)
         IN shorter \cup {Append(str, ch) : str \in shorter, ch \in chars}

IntParts == Strings({"0", "1", "9"}, MaxIntDigits)

FracParts == Strings({"0", "5"}, FracDigits)

\* The amount texts a row may carry: an integer part, a point and up to
\* four fraction digits; a digit string without a point; a few others.
PointTexts == {i \o <<".">> \o f : i \in IntParts, f \in FracParts}

PlainTexts == IntParts \ {<< >>}

OtherTexts ==
    {<< >>, <<"x">>, <<"-", "1", ".", "0">>, <<"+", "1", ".", "0">>,
     <<"1", ".", "2", ".", "5">>, <<"1", ".", "0", "0", "0", "0", "5">>}

AmountTexts == PointTexts \cup PlainTexts \cup OtherTexts

\* deserialize_amount is called on a text of a row.
Deserialize ==
    /\ codec = NoCall
    /\ \E text \in AmountTexts :
          LET r == deserialize_amount(text)
          IN codec' = Call("deserialize", 0, text, r.ok, r.value)
    /\ UNCHANGED <<accounts, t, n, pc, output, panicked, wrapped, input, file_content,
                   history>>

\* serialize_amount is called on an amount of an OutputAccount.
Serialize ==
    /\ codec = NoCall
    /\ \E x \in 0..CodecU64Max :
          LET r == serialize_amount(x)
          IN codec' = Call("serialize", x, r.text, ~r.panicked, 0)
    /\ UNCHANGED <<accounts, t, n, pc, output, panicked, wrapped, input, file_content,
                   history>>

\* The text serialize_amount wrote is read back by deserialize_amount.
ReadBack ==
    /\ codec.op = "serialize"
    /\ codec.ok
    /\ LET r == deserialize_amount(codec.text)
       IN codec' = Call("readback", codec.x, codec.text, r.ok, r.value)
    /\ UNCHANGED <<accounts, t, n, pc, output, panicked, wrapped, input, file_content,
                   history>>

NextCodec == Deserialize \/ Serialize \/ ReadBack

SpecCodec == Init /\ [][NextCodec]_vars

\* ------------------------------------------------------- the input file
\* A record of the file as the csv reader hands it to serde: the trimmed
\* fields, the ids as the numbers their digits denote, the amount as text.
Record(type, client, tx, amount) ==
    [type |-> type, client |-> client, tx |-> tx, amount |-> amount]

\* The records of a generated file: rows that parse (amounts of 0.0002,
\* 0.0001 and 0.0), and rows with an unknown kind, a client id above
\* u16::MAX, a tx id above u32::MAX, an amount that is no number, a
\* negative amount.
Records ==
    {Record("deposit", 1, 1, <<"0", ".", "0", "0", "0", "2">>),
     Record("withdrawal", 1, 1, <<"0", ".", "0", "0", "0", "1">>),
     Record("dispute", 1, 1, <<"0", ".", "0">>),
     Record("chargeback", 1, 1, <<"0", ".", "0">>),
     Record("deposit", 2, 2, <<"0", ".", "0", "0", "0", "2">>),
     Record("transfer", 2, 1, <<"0", ".", "0", "0", "0", "1">>),
     Record("deposit", U16Max + 1, 1, <<"0", ".", "0", "0", "0", "1">>),
     Record("deposit", 2, U32Max + 1, <<"0", ".", "0", "0", "0", "1">>),
     Record("deposit", 2, 1, <<"x">>),
     Record("withdrawal", 1, 2, <<"-", "0", ".", "0", "0", "0", "1">>)}

\* serde's deserialization of a record into a TransactionRow: the kind is
\* one of the five lowercase names, client fits u16, tx fits u32 and the
\* amount is what deserialize_amount returns, within the amount type.
deserialize_record(record) ==
    LET amount == deserialize_amount(record.amount)
    IN IF /\ record.type \in TransactionType
          /\ record.client <= U16Max
          /\ record.tx <= U32Max
          /\ amount.ok
          /\ amount.value <= U64Max
       THEN Ok([type |-> record.type, client |-> record.client,
                tx |-> record.tx, amount |-> amount.value])
       ELSE Err

\* Mutant: reading stops at the first record that fails to parse.
RECURSIVE read_csv_StopsAtError(_)
read_csv_StopsAtError(records) ==
    IF records = << >> THEN << >>
    ELSE LET r == deserialize_record(Head(records))
         IN IF r.ok THEN <<r.value>> \o read_csv_StopsAtError(Tail(records))
            ELSE << >>

\* read_csv: the records that deserialize, in file order (filter_map(r.ok())).
RECURSIVE read_csv(_)
read_csv(records) ==
    IF records = << >> THEN << >>
    ELSE LET r == deserialize_record(Head(records))
         IN (IF r.ok THEN <<r.value>> ELSE << >>) \o read_csv(Tail(records))

\* main reads the file.
ReadCsv ==
    /\ ~file_content.read
    /\ n = 0
    /\ pc = "processing"
    /\ \E records \in Strings(Records, MaxFile) :
          /\ file_content' = [read |-> TRUE, records |-> records]
          /\ input' = read_csv(records)
    /\ UNCHANGED <<accounts, t, n, pc, output, panicked, wrapped, codec, history>>

\* The fold takes the next row read_csv returned.
StepCsv ==
    /\ file_content.read
    /\ n < Len(input)
    /\ ProcessRow(input[n + 1])
    /\ UNCHANGED <<input, history>>

\* The fold is through the rows and main writes the accounts.
WriteOutputCsv ==
    /\ file_content.read
    /\ n = Len(input)
    /\ WriteOutput

NextCsv == ReadCsv \/ StepCsv \/ WriteOutputCsv

SpecCsv == Init /\ [][NextCsv]_vars

\* ---------------------------------------------------- the funds of a run
\* The rows of a run whose history is kept: a client deposits the largest
\* amount or one less, withdraws 1 or the largest amount but one under
\* either tx id, and disputes, resolves and charges back either tx id.
FundRows ==
    [type : {"deposit"}, client : Clients, tx : {1}, amount : {U64Max - 1, U64Max}]
        \cup [type : {"withdrawal"}, client : Clients, tx : Txs,
              amount : {1, U64Max - 1}]
        \cup [type : {"dispute", "resolve", "chargeback"}, client : Clients,
              tx : Txs, amount : {0}]

\* The dispute row takes effect on acc: its account is not locked and
\* records the tx id (held += e.amount).
EffectiveDispute(acc, row) ==
    /\ row.type = "dispute"
    /\ ~Entry(acc, row.client).locked
    /\ row.tx \in DOMAIN Entry(acc, row.client).transactions

\* The deposit row is accepted on acc: its account is not locked.
AcceptedDeposit(acc, row) == row.type = "deposit" /\ ~Entry(acc, row.client).locked

\* The history after the row was applied to acc.
Recorded(h, acc, row) ==
    [deposited |->
        IF AcceptedDeposit(acc, row)
        THEN [h.deposited EXCEPT ![row.client] = @ + row.amount]
        ELSE h.deposited,
     withdrawn |->
        IF row.type = "withdrawal" THEN h.withdrawn \cup {row.tx} ELSE h.withdrawn,
     disputed |->
        IF EffectiveDispute(acc, row)
        THEN h.disputed \cup {<<row.client, row.tx>>}
        ELSE h.disputed,
     single |->
        /\ h.single
        /\ ~(row.type = "withdrawal" /\ row.tx \in h.withdrawn)
        /\ ~(EffectiveDispute(acc, row) /\ <<row.client, row.tx>> \in h.disputed)]

\* One step of the fold, with the history kept.  A run is followed until
\* a tx id comes with a second withdrawal row or an entry gets a second
\* effective dispute.
StepFunds ==
    /\ history.single
    /\ \E row \in FundRows :
          /\ ProcessRowWithin(row, MaxFundRows)
          /\ history' = IF panicked' THEN history ELSE Recorded(history, accounts, row)
    /\ UNCHANGED input

NextFunds == StepFunds \/ WriteOutput

SpecFunds == Init /\ [][NextFunds]_vars

\* =============================================================== claims
\* A fold step took the row t'.  Pre is the account the row is applied to
\* (the one of its client, fresh when the client is new), Post the account
\* afterwards.
Took(type) == n' = n + 1 /\ t'.type = type

Pre == Entry(accounts, t'.client)

Post == accounts'[t'.client]

NoError == ~panicked' /\ wrapped' = wrapped

\* C1: on a locked account a row of any of the five kinds, with any tx id
\* and any amount, changes nothing: available, held, locked and the whole
\* transaction mapping stay as they are.
C1_LockedAccountIgnoresRows ==
    [][(n' = n + 1 /\ Pre.locked) =>
          (NoError /\ Post = Pre /\ accounts' = accounts)]_vars

\* A non-zero deposit was taken for an account that is locked (a deposit
\* never locks, so the account was locked when the row arrived).
C1_Witness ==
    /\ t.type = "deposit"
    /\ t.amount > 0
    /\ t.client \in DOMAIN accounts
    /\ accounts[t.client].locked
    /\ accounts[t.client].available > 0

\* C2: on an unlocked account a withdrawal takes effect iff amount <
\* available: then available decreases by exactly amount; with amount =
\* available or amount > available nothing changes and no error is raised.
C2_WithdrawalStrictBoundary ==
    [][(Took("withdrawal") /\ ~Pre.locked) =>
          /\ NoError
          /\ IF t'.amount < Pre.available
             THEN /\ Post.available = Pre.available - t'.amount
                  /\ Post.held = Pre.held
                  /\ Post.locked = Pre.locked
             ELSE Post = Pre]_vars

\* A withdrawal of exactly the available balance was rejected: the balance
\* still equals the amount and the tx id was not recorded.
C2_Witness ==
    /\ t.type = "withdrawal"
    /\ t.amount > 0
    /\ t.client \in DOMAIN accounts
    /\ ~accounts[t.client].locked
    /\ accounts[t.client].available = t.amount
    /\ t.tx \notin DOMAIN accounts[t.client].transactions

\* C3: on an unlocked account a dispute of a recorded tx id adds the
\* recorded amount to held every time, whatever the entry's dispute state;
\* it moves the state only from None to Ongoing and leaves available and
\* locked alone (so k disputes raise held by k times the amount).
C3_DisputeAddsAmountEveryTime ==
    [][(Took("dispute") /\ ~Pre.locked /\ t'.tx \in DOMAIN Pre.transactions) =>
          LET e == Pre.transactions[t'.tx]
          IN /\ ~panicked'
             /\ Post.held = Pre.held + e.amount
             /\ Post.available = Pre.available
             /\ Post.locked = Pre.locked
             /\ Post.transactions =
                  [Pre.transactions EXCEPT ![t'.tx].dispute =
                      IF e.dispute = <<"None">> THEN <<"Ongoing">> ELSE e.dispute]]_vars

\* C3 as far as the width allows: the same, for a dispute whose addition
\* stays within the amount type.
C3_WithinWidth ==
    [][(/\ Took("dispute") /\ ~Pre.locked /\ t'.tx \in DOMAIN Pre.transactions
        /\ ~AddOverflows(Pre.held, Pre.transactions[t'.tx].amount)) =>
          LET e == Pre.transactions[t'.tx]
          IN /\ NoError
             /\ Post.held = Pre.held + e.amount
             /\ Post.available = Pre.available
             /\ Post.locked = Pre.locked
             /\ Post.transactions =
                  [Pre.transactions EXCEPT ![t'.tx].dispute =
                      IF e.dispute = <<"None">> THEN <<"Ongoing">> ELSE e.dispute]]_vars

IsOngoing(account, tx) ==
    tx \in DOMAIN account.transactions
        /\ account.transactions[tx].dispute = <<"Ongoing">>

\* C4: on an unlocked account a resolve of an entry in state Ongoing sets
\* it to Done(Resolve), decreases held by the entry's amount, increases
\* available by the same amount and leaves locked false; a resolve of an
\* entry in state None or Done changes nothing.
C4_ResolveOnlyWhenOngoing ==
    [][(Took("resolve") /\ ~Pre.locked /\ t'.tx \in DOMAIN Pre.transactions) =>
          LET e == Pre.transactions[t'.tx]
          IN IF e.dispute = <<"Ongoing">>
             THEN /\ ~panicked'
                  /\ Post.transactions =
                       [Pre.transactions EXCEPT ![t'.tx].dispute = Done("Resolve")]
                  /\ Post.held = Pre.held - e.amount
                  /\ Post.available = Pre.available + e.amount
                  /\ Post.locked = FALSE
             ELSE NoError /\ Post = Pre]_vars

\* C4 as far as the width allows.
C4_WithinWidth ==
    [][(/\ Took("resolve") /\ ~Pre.locked /\ IsOngoing(Pre, t'.tx)
        /\ ~SubOverflows(Pre.held, Pre.transactions[t'.tx].amount)
        /\ ~AddOverflows(Pre.available, Pre.transactions[t'.tx].amount)) =>
          LET e == Pre.transactions[t'.tx]
          IN /\ NoError
             /\ Post = [Pre EXCEPT !.transactions[t'.tx].dispute = Done("Resolve"),
                                   !.held = Pre.held - e.amount,
                                   !.available = Pre.available + e.amount]]_vars

\* C5: on an unlocked account a chargeback of an entry in state Ongoing
\* sets it to Done(Chargeback), decreases held by the entry's amount,
\* leaves available alone and locks the account; a chargeback of an entry
\* in state None or Done changes nothing and does not lock.
C5_ChargebackOnlyWhenOngoing ==
    [][(Took("chargeback") /\ ~Pre.locked /\ t'.tx \in DOMAIN Pre.transactions) =>
          LET e == Pre.transactions[t'.tx]
          IN IF e.dispute = <<"Ongoing">>
             THEN /\ ~panicked'
                  /\ Post.transactions =
                       [Pre.transactions EXCEPT ![t'.tx].dispute = Done("Chargeback")]
                  /\ Post.held = Pre.held - e.amount
                  /\ Post.available = Pre.available
                  /\ Post.locked = TRUE
             ELSE NoError /\ Post = Pre]_vars

\* C5 as far as the width allows.
C5_WithinWidth ==
    [][(/\ Took("chargeback") /\ ~Pre.locked /\ IsOngoing(Pre, t'.tx)
        /\ ~SubOverflows(Pre.held, Pre.transactions[t'.tx].amount)) =>
          LET e == Pre.transactions[t'.tx]
          IN /\ NoError
             /\ Post = [Pre EXCEPT !.transactions[t'.tx].dispute = Done("Chargeback"),
                                   !.held = Pre.held - e.amount,
                                   !.locked = TRUE]]_vars

\* C6: a dispute, resolve or chargeback whose tx id is no key of the
\* account's mapping when it is applied changes nothing in the account and
\* raises no error (the tx id of a deposit, of a rejected withdrawal, of
\* another client's withdrawal, of a withdrawal that comes later); a
\* withdrawal that arrives later is recorded undisputed, with held as it was.
C6_UnknownTxIsNoOp ==
    [][/\ (/\ n' = n + 1
           /\ t'.type \in {"dispute", "resolve", "chargeback"}
           /\ t'.tx \notin DOMAIN Pre.transactions) =>
             (NoError /\ Post = Pre)
       /\ (/\ Took("withdrawal")
           /\ t'.tx \notin DOMAIN Pre.transactions
           /\ ~panicked'
           /\ t'.tx \in DOMAIN Post.transactions) =>
             (Post.transactions[t'.tx].dispute = <<"None">> /\ Post.held = Pre.held)]_vars

\* A dispute was taken for a tx id that only the other client's account
\* records (as a withdrawal of a non-zero amount); the disputing client has
\* funds and holds nothing.
C6_Witness ==
    /\ t.type = "dispute"
    /\ t.client \in DOMAIN accounts
    /\ t.tx \notin DOMAIN accounts[t.client].transactions
    /\ accounts[t.client].available > 0
    /\ accounts[t.client].held = 0
    /\ \E c \in DOMAIN accounts :
          /\ c # t.client
          /\ t.tx \in DOMAIN accounts[c].transactions
          /\ accounts[c].transactions[t.tx].amount > 0

\* C7: locked never goes from true to false: an account that is locked in
\* a state is locked in every later state.
C7_LockedIsMonotonic ==
    [][\A c \in DOMAIN accounts :
          accounts[c].locked => (c \in DOMAIN accounts' /\ accounts'[c].locked)]_vars

\* A chargeback row was taken for an account that an earlier chargeback, of
\* another tx id, had locked.
C7_Witness ==
    /\ t.type = "chargeback"
    /\ t.client \in DOMAIN accounts
    /\ accounts[t.client].locked
    /\ ~(/\ t.tx \in DOMAIN accounts[t.client].transactions
         /\ accounts[t.client].transactions[t.tx].dispute = Done("Chargeback"))

\* C8: the total of every OutputAccount equals available + held, and
\* available and held are never negative.
C8_TotalIsAvailablePlusHeld ==
    pc = "done" =>
        \A o \in output :
            o.total = o.available + o.held /\ o.available >= 0 /\ o.held >= 0

\* C9: held -= amount of resolve and chargeback never underflows: whenever
\* an entry is in state Ongoing, held is at least that entry's amount.
C9_HeldCoversOngoing ==
    \A c \in DOMAIN accounts :
        \A tx \in DOMAIN accounts[c].transactions :
            IsOngoing(accounts[c], tx) =>
                accounts[c].held >= accounts[c].transactions[tx].amount

\* The rows of the input that carry client id c, in input order.
RowsOf(c) == SelectSeq(input, LAMBDA row : row.client = c)

\* The builds the run so far can come from: a panic shows a checked build,
\* a wrapped value an unchecked one.
Builds == {checks \in BOOLEAN : (panicked => checks) /\ (wrapped => ~checks)}

\* C10: the account of each client depends only on the rows that carry its
\* client id, in input order: after any input, it is the account that
\* process_transactions builds from those rows alone (so any two
\* interleavings of the same per-client rows end in the same accounts, and
\* a row of one client leaves every other client's account as it was).
C10_AccountDependsOnOwnRows ==
    \A checks \in Builds :
        /\ \A c \in Clients :
              LET own == process_transactions(RowsOf(c), checks).accounts
              IN /\ c \in DOMAIN accounts <=> c \in DOMAIN own
                 /\ c \in DOMAIN accounts => accounts[c] = own[c]
        /\ pc = "processing" =>
              (panicked <=>
                  \E c \in Clients : process_transactions(RowsOf(c), checks).panicked)

\* Rows of the two clients alternate in the input and both accounts record
\* a withdrawal.
C10_Witness ==
    /\ Len(input) >= 4
    /\ input[1].client # input[2].client
    /\ input[2].client # input[3].client
    /\ \A c \in Clients :
          /\ c \in DOMAIN accounts
          /\ 1 \in DOMAIN accounts[c].transactions
          /\ accounts[c].available > 0

\* ----------------------------- parsing, creation, deposits and the codec
\* The file without the records that fail to parse.
Parseable(records) == SelectSeq(records, LAMBDA record : deserialize_record(record).ok)

\* C11: a record that fails to parse (unknown kind, client id outside 16
\* bits, tx id outside 32 bits, malformed amount) is dropped and the batch
\* goes on: the rows, the accounts and the output of a file are those of
\* the file without its unparseable records, and a client id that only
\* unparseable records carry gets no account.
C11_UnparseableRowsAreDropped ==
    file_content.read =>
        LET rows == read_csv(Parseable(file_content.records))
        IN /\ input = rows
           /\ \A checks \in Builds :
                 LET clean == process_transactions(SubSeq(rows, 1, n), checks)
                 IN /\ accounts = clean.accounts
                    /\ pc = "processing" => panicked = clean.panicked
                    /\ (pc = "done" /\ ~panicked) =>
                          output = {OutputAccount(clean.accounts[c]) :
                                       c \in DOMAIN clean.accounts}
           /\ \A i \in 1..Len(file_content.records) :
                 (\A j \in 1..Len(rows) : rows[j].client # file_content.records[i].client)
                     => file_content.records[i].client \notin DOMAIN accounts

\* A file of three records was processed to the end: a deposit of client 1,
\* a record of client 2 whose amount is no number, a withdrawal of client
\* 1.  The withdrawal took effect and client 2 has no account.
C11_Witness ==
    /\ pc = "done"
    /\ ~panicked
    /\ Len(file_content.records) = 3
    /\ file_content.records[2] = Record("deposit", 2, 1, <<"x">>)
    /\ Len(input) = 2
    /\ DOMAIN accounts = {1}
    /\ accounts[1].available = 1
    /\ 1 \in DOMAIN accounts[1].transactions
    /\ Cardinality(output) = 1

\* The client ids that occur in the rows taken so far.
ClientsOf(rows) == {rows[i].client : i \in 1..Len(rows)}

\* The rows change no account: disputes, resolves and chargebacks of tx
\* ids that no withdrawal recorded.
OnlyDisputeKinds(rows) ==
    \A i \in 1..Len(rows) : rows[i].type \in {"dispute", "resolve", "chargeback"}

\* C12: process_transactions returns one account for each client id that
\* occurs in the rows, no other and none twice: the account is created at
\* the client's first row, as Account::new makes it (no funds, not locked,
\* empty mapping), and stays; a client whose rows are all no-ops, such as
\* disputes of an unknown tx id, has an account and is written with zero
\* balances.
C12_OneAccountPerClient ==
    /\ DOMAIN accounts = ClientsOf(input)
    /\ \A c \in DOMAIN accounts :
          /\ accounts[c].client = c
          /\ Len(RowsOf(c)) = 1 =>
                accounts[c] = process_transaction(Account_new(c), RowsOf(c)[1]).account
          /\ OnlyDisputeKinds(RowsOf(c)) => accounts[c] = Account_new(c)
    /\ (pc = "done" /\ ~panicked) =>
          /\ \A c \in ClientsOf(input) :
                Cardinality({o \in output : o.client = c}) = 1
          /\ \A o \in output : o.client \in ClientsOf(input)
          /\ \A c \in ClientsOf(input) :
                OnlyDisputeKinds(RowsOf(c)) =>
                    [client |-> c, available |-> 0, held |-> 0, total |-> 0,
                     locked |-> FALSE] \in output

\* The output was written for an input in which client 2 only disputes a
\* tx id it never used, twice, and client 1 deposits: both clients are in
\* the output, client 2 with zero balances.
C12_Witness ==
    /\ pc = "done"
    /\ ~panicked
    /\ Len(RowsOf(2)) = 2
    /\ \A i \in 1..Len(RowsOf(2)) : RowsOf(2)[i].type = "dispute"
    /\ Len(RowsOf(1)) >= 1
    /\ accounts[1].available > 0
    /\ accounts[2] = Account_new(2)
    /\ Cardinality(output) = 2

\* C13: a deposit on an unlocked account always succeeds: for every
\* reachable available and every amount of the amount type, available
\* rises by the amount, and held, locked and the transaction mapping stay
\* (the tx id of a deposit is not recorded).
C13_DepositAlwaysSucceeds ==
    [][(Took("deposit") /\ ~Pre.locked) =>
          /\ ~panicked'
          /\ Post = [Pre EXCEPT !.available = Pre.available + t'.amount]]_vars

\* C13 as far as the width allows: the same, for a deposit whose sum stays
\* within the amount type.
C13_WithinWidth ==
    [][(/\ Took("deposit") /\ ~Pre.locked
        /\ ~AddOverflows(Pre.available, t'.amount)) =>
          /\ NoError
          /\ Post = [Pre EXCEPT !.available = Pre.available + t'.amount]]_vars

\* The decimal value of a string of digits and the powers of ten, for
\* stating what the codec is to compute.
RECURSIVE Num(_)
Num(str) == IF str = << >> THEN 0 ELSE Num(SubSeq(str, 1, Len(str) - 1)) * 10 + DigitValue(str[Len(str)])

RECURSIVE Pow10(_)
Pow10(k) == IF k = 0 THEN 1 ELSE 10 * Pow10(k - 1)

IsDigits(str) == \A i \in 1..Len(str) : IsDigit(str[i])

\* C14: the codec round trip: for every amount x, 0 and 1..9999 included,
\* deserialize_amount(serialize_amount(x)) returns x, and
\* serialize_amount(0) is "0.0".
C14_CodecRoundTrip ==
    /\ codec.op = "serialize" =>
          (codec.ok /\ (codec.x = 0 => codec.text = <<"0", ".", "0">>))
    /\ codec.op = "readback" => (codec.ok /\ codec.value = codec.x)

\* C14 where serialize_amount returns: from four digits on, and for 0, the
\* text reads back as the amount.
C14_FromFourDigits ==
    /\ codec.op = "serialize" =>
          (codec.ok <=> (codec.x = 0 \/ codec.x >= Pow10(FracDigits - 1)))
    /\ codec.op = "readback" => (codec.ok /\ codec.value = codec.x)

\* C15: deserialize_amount returns an error for every amount text without
\* a decimal point, a plain digit string such as "5" included.
C15_NoPointIsAnError ==
    (codec.op = "deserialize" /\ Points(codec.text) = {}) => ~codec.ok

\* The text has the form I.F: one point, digits before it, at most four
\* digits after it.
PointAt(text) == CHOOSE i \in 1..Len(text) : text[i] = "."

IntegerPart(text) == SubSeq(text, 1, PointAt(text) - 1)

FractionPart(text) == SubSeq(text, PointAt(text) + 1, Len(text))

HasForm(text) ==
    /\ Cardinality(Points(text)) = 1
    /\ IsDigits(IntegerPart(text))
    /\ IsDigits(FractionPart(text))
    /\ Len(FractionPart(text)) <= FracDigits

Scaled(text) ==
    Num(IntegerPart(text)) * Pow10(FracDigits)
        + Num(FractionPart(text)) * Pow10(FracDigits - Len(FractionPart(text)))

\* C16 as claimed: for every text I.F, with F of 0 to 4 digits,
\* deserialize_amount returns I * 10000 + F * 10^(4 - len(F)).
C16_Original ==
    (codec.op = "deserialize" /\ HasForm(codec.text)) =>
        (codec.ok /\ codec.value = Scaled(codec.text))

\* C16, amended: it returns I * 10000 + F * 10^(4 - len(F)) when that
\* value is within the amount type, and an error when it is not.
C16_ScaledWithinWidth ==
    (codec.op = "deserialize" /\ HasForm(codec.text)) =>
        IF Scaled(codec.text) <= CodecU64Max
        THEN codec.ok /\ codec.value = Scaled(codec.text)
        ELSE ~codec.ok

\* "1.05" was read as 10500: the fraction was padded on the right.
C16_Witness ==
    /\ codec.op = "deserialize"
    /\ codec.text = <<"1", ".", "0", "5">>
    /\ codec.ok
    /\ codec.value = 10500

\* ------------------------------------------------ the transaction mapping
\* C17: no operation removes a key of an account's transaction mapping:
\* the tx ids of the mapping in a later state include those of any earlier
\* state (and the account itself stays).
C17_KeysAreNeverRemoved ==
    [][\A c \in DOMAIN accounts :
          /\ c \in DOMAIN accounts'
          /\ DOMAIN accounts[c].transactions \subseteq DOMAIN accounts'[c].transactions]_vars

\* A resolve took effect on a recorded withdrawal and the entry is still
\* in the mapping, as Done(Resolve), with its amount.
C17_Witness ==
    /\ t.type = "resolve"
    /\ t.client \in DOMAIN accounts
    /\ t.tx \in DOMAIN accounts[t.client].transactions
    /\ accounts[t.client].transactions[t.tx] = Transaction(1, Done("Resolve"))
    /\ accounts[t.client].held = 0

\* The row t' is a withdrawal that the account Pre accepts.
Accepted ==
    /\ t'.type = "withdrawal"
    /\ ~Pre.locked
    /\ WithdrawalAccepted(Pre.available, t'.amount)

\* C18: the keys of the transaction mapping are the tx ids of the accepted
\* withdrawals: a fresh account has none, an accepted withdrawal inserts
\* its tx id with the withdrawn amount and dispute state None, and a
\* deposit, a rejected withdrawal, a dispute, a resolve or a chargeback
\* inserts no key.
C18_KeysAreAcceptedWithdrawals ==
    [][(n' = n + 1 /\ ~panicked') =>
          /\ t'.client \notin DOMAIN accounts => Pre.transactions = << >>
          /\ DOMAIN Post.transactions =
                DOMAIN Pre.transactions \cup (IF Accepted THEN {t'.tx} ELSE {})
          /\ Accepted => Post.transactions[t'.tx] = Transaction(t'.amount, <<"None">>)]_vars

\* A deposit came with a tx id that is no key of its account, while the
\* account records an accepted withdrawal under the other tx id.
C18_Witness ==
    /\ t.type = "deposit"
    /\ t.client \in DOMAIN accounts
    /\ t.amount > 0
    /\ t.tx \notin DOMAIN accounts[t.client].transactions
    /\ \E tx \in DOMAIN accounts[t.client].transactions :
          accounts[t.client].transactions[tx] = Transaction(1, <<"None">>)

\* How far a dispute state is along None -> Ongoing -> Done.
Rank(dispute) ==
    CASE dispute[1] = "None" -> 0
      [] dispute[1] = "Ongoing" -> 1
      [] dispute[1] = "Done" -> 2

IsDone(dispute) == dispute[1] = "Done"

\* The row t' is a withdrawal whose tx id the account already records: the
\* tx id is used by a second withdrawal row.
ReusesTx == t'.type = "withdrawal" /\ t'.tx \in DOMAIN Pre.transactions

\* C19: as long as no tx id comes with a second withdrawal row, a recorded
\* transaction keeps its amount and its dispute state only moves forward
\* along None -> Ongoing -> Done(outcome): Done is terminal with its
\* outcome, so a resolve or chargeback of a Done entry has no effect and at
\* most one of them ever takes effect for an entry.
C19_DisputeStateMovesForward ==
    [][(n' = n + 1 /\ ~ReusesTx) =>
          \A c \in DOMAIN accounts :
              \A tx \in DOMAIN accounts[c].transactions :
                  LET a == accounts[c].transactions[tx]
                      b == accounts'[c].transactions[tx]
                  IN /\ b.amount = a.amount
                     /\ Rank(b.dispute) >= Rank(a.dispute)
                     /\ IsDone(a.dispute) => b.dispute = a.dispute
                     /\ (/\ IsDone(a.dispute)
                         /\ c = t'.client
                         /\ tx = t'.tx
                         /\ t'.type \in {"resolve", "chargeback"}) =>
                           (NoError /\ accounts' = accounts)]_vars

\* A chargeback came for an entry that a resolve had closed: the entry is
\* still Done(Resolve) and the account is not locked.
C19_Witness ==
    /\ t.type = "chargeback"
    /\ t.client \in DOMAIN accounts
    /\ t.tx \in DOMAIN accounts[t.client].transactions
    /\ accounts[t.client].transactions[t.tx] = Transaction(1, Done("Resolve"))
    /\ ~accounts[t.client].locked

\* The row of a dispute, resolve or chargeback with the given amount field.
DisputeRow(type, client, tx, amount) ==
    [type |-> type, client |-> client, tx |-> tx, amount |-> amount]

\* C20: the effect of a dispute, resolve or chargeback does not depend on
\* the amount field of the row: the step taken for such a row is the step
\* of the same row with another amount, so two runs that differ in these
\* amounts only are in the same state after every step (the amount used is
\* the one recorded with the withdrawal).
C20_DisputeAmountIsIgnored ==
    [][(n' = n + 1 /\ t'.type \in {"dispute", "resolve", "chargeback"}) =>
          \A amount \in IgnoredAmounts \ {t'.amount} :
              LET r == process_transaction(
                           Pre, DisputeRow(t'.type, t'.client, t'.tx, amount))
              IN IF panicked'
                 THEN r.overflow /\ accounts' = accounts
                 ELSE /\ Post = r.account
                      /\ wrapped' = (wrapped \/ r.overflow)]_vars

\* A dispute row carrying the amount 1 was taken for a withdrawal of 2, and
\* 2 is held.
C20_Witness ==
    /\ t.type = "dispute"
    /\ t.amount = 1
    /\ t.client \in DOMAIN accounts
    /\ t.tx \in DOMAIN accounts[t.client].transactions
    /\ accounts[t.client].transactions[t.tx] = Transaction(2, <<"Ongoing">>)
    /\ accounts[t.client].held = 2

\* ------------------------------------------------- locks, funds and reuse
\* The tx ids of the account's entries that a chargeback closed.
ChargedBack(account) ==
    {tx \in DOMAIN account.transactions :
        account.transactions[tx].dispute = Done("Chargeback")}

\* C21: an account built by process_transactions is locked iff its mapping
\* has an entry in state Done(Chargeback), and the mapping never has more
\* than one such entry.
C21_LockedIffChargedBack ==
    \A c \in DOMAIN accounts :
        /\ accounts[c].locked <=> ChargedBack(accounts[c]) # {}
        /\ Cardinality(ChargedBack(accounts[c])) <= 1

\* A chargeback locked an account that records two withdrawals: one entry
\* is Done(Chargeback), the other was never disputed.
C21_Witness ==
    /\ t.type = "chargeback"
    /\ t.client \in DOMAIN accounts
    /\ accounts[t.client].locked
    /\ ChargedBack(accounts[t.client]) = {t.tx}
    /\ \E tx \in DOMAIN accounts[t.client].transactions :
          accounts[t.client].transactions[tx].dispute = <<"None">>

\* The sum of the amounts of the account's entries in state Ongoing.
RECURSIVE SumOfAmounts(_, _)
SumOfAmounts(transactions, keys) ==
    IF keys = {} THEN 0
    ELSE LET tx == CHOOSE k \in keys : TRUE
         IN transactions[tx].amount + SumOfAmounts(transactions, keys \ {tx})

OngoingSum(account) ==
    SumOfAmounts(account.transactions,
                 {tx \in DOMAIN account.transactions : IsOngoing(account, tx)})

\* C22: in a run in which no tx id comes with more than one withdrawal row
\* and every recorded tx id gets at most one effective dispute, held is in
\* every state the sum of the amounts of the entries in state Ongoing (and
\* 0 when no dispute is open).
C22_HeldIsSumOfOngoing ==
    history.single =>
        \A c \in DOMAIN accounts : accounts[c].held = OngoingSum(accounts[c])

\* C22 as far as the width allows: the same, as long as no value wrapped.
C22_WithinWidth ==
    (history.single /\ ~wrapped) =>
        \A c \in DOMAIN accounts : accounts[c].held = OngoingSum(accounts[c])

\* C23: in such a run available + held of an account never exceeds the sum
\* of the amounts of the deposits accepted on the account so far.
C23_FundsWithinDeposits ==
    history.single =>
        \A c \in DOMAIN accounts :
            accounts[c].available + accounts[c].held <= history.deposited[c]

\* A dispute was resolved: the withdrawn amount is back in available,
\* nothing is held, and available is all that was deposited.
C23_Witness ==
    /\ history.single
    /\ ~wrapped
    /\ t.type = "resolve"
    /\ t.client \in DOMAIN accounts
    /\ IF t.tx \in DOMAIN accounts[t.client].transactions
       THEN accounts[t.client].transactions[t.tx].dispute = Done("Resolve")
       ELSE FALSE
    /\ accounts[t.client].held = 0
    /\ accounts[t.client].available = history.deposited[t.client]
    /\ accounts[t.client].available > 0

\* C24: an accepted withdrawal whose tx id is already a key of the mapping
\* replaces the entry by (the new amount, None), whatever its dispute state
\* was, and leaves held as it is; a resolve or chargeback of the tx id then
\* finds the entry undisputed and releases nothing, so what an earlier
\* dispute of the replaced entry added to held stays held.
C24_ReuseReplacesEntry ==
    [][/\ (Accepted /\ ReusesTx) =>
             /\ NoError
             /\ Post = [Pre EXCEPT
                          !.available = Pre.available - t'.amount,
                          !.transactions[t'.tx] = Transaction(t'.amount, <<"None">>)]
       /\ (/\ n' = n + 1
           /\ t'.type \in {"resolve", "chargeback"}
           /\ t'.tx \in DOMAIN Pre.transactions
           /\ Pre.transactions[t'.tx].dispute = <<"None">>) =>
             (NoError /\ Post = Pre)]_vars

\* A withdrawal of 1 replaced the only entry of the account, a disputed
\* withdrawal of 2: the entry is (1, None) and the 2 are still held.
C24_Witness ==
    /\ t.type = "withdrawal"
    /\ t.amount = 1
    /\ t.client \in DOMAIN accounts
    /\ DOMAIN accounts[t.client].transactions = {t.tx}
    /\ accounts[t.client].transactions[t.tx] = Transaction(1, <<"None">>)
    /\ accounts[t.client].held = 2
    /\ ~accounts[t.client].locked

====
